---- MODULE Spec2Model ----
(***************************************************************************)
(* A model of ragflow_uploader.py: the one-shot synchronisation of a local *)
(* directory into a RAGFlow dataset.  The program is single threaded; its  *)
(* position is pc.  One action stands for each step of main() that ends    *)
(* in a remote call or in a return: the dataset lookup, the dataset        *)
(* creation, the directory scan, every document listing call of            *)
(* get_existing_documents, the filtering of upload_files, every batch of   *)
(* upload_files, its final statistics, start_parsing and the end of main.  *)
(* The remote service and the file system are the environment: every call  *)
(* may return normally or raise.                                           *)
(***************************************************************************)
EXTENDS Integers, Sequences, FiniteSets, TLC

\* ------------------------------------------------------------------ bounds
MaxFiles == 2          \* longest directory listing of a whole run
MaxUploadFiles == 4    \* longest file list handed to upload_files alone
MaxBatchSize == 2      \* largest --batch_size of a whole run
NumUploadPaths == 4    \* paths the lists handed to upload_files are drawn from
MaxUploadBatch == 3    \* largest batch_size handed to upload_files alone
MaxFullPages == 1      \* full pages of the largest remote inventory
MaxExtraDocs == 1      \* its documents beyond the full pages

\* ------------------------------------------------- constants of the program
page_size == 50
max_pages == 1000
default_batch_size == 5

supported_extensions ==
    { ".txt", ".md", ".pdf", ".doc", ".docx", ".ppt", ".pptx", ".xls",
      ".xlsx", ".csv", ".html", ".htm", ".json", ".xml", ".rtf" }

\* --------------------------------------------------------------- the paths
\* A path is its directory, the stem of its last component and its suffix.
MkPath(d, s, x) == [dir |-> d, stem |-> s, suffix |-> x]

AllPaths ==
    << MkPath("docs", "a", ".md"),
       MkPath("docs", "b", ".txt"),
       MkPath("docs/sub", "a", ".md"),
       MkPath("docs", "R", ".PDF"),
       MkPath("docs", "tool", ".exe"),
       MkPath("docs/sub", "c", ".csv") >>

\* Path.name
PathName(p) == p.stem \o p.suffix

\* str(path)
PathStr(p) == p.dir \o "/" \o PathName(p)

\* str.lower() on the suffixes of AllPaths
Lower(s) ==
    CASE s = ".PDF" -> ".pdf"
      [] s = ".MD"  -> ".md"
      [] OTHER      -> s

is_supported_file(p) == Lower(p.suffix) \in supported_extensions

\* ------------------------------------------------------------ small helpers
Min(a, b) == IF a < b THEN a ELSE b

Range(s) == { s[k] : k \in DOMAIN s }

NoDup(s) == \A j, k \in DOMAIN s : j # k => s[j] # s[k]

\* sequences without repetition over S, of length at most n
SeqsNoDup(S, n) ==
    UNION { { s \in [1..k -> S] : NoDup(s) } : k \in 0..n }

\* the elements of s at the positions in keep, in the order of s
RECURSIVE Pick(_, _, _)
Pick(s, keep, k) ==
    IF k > Len(s) THEN << >>
    ELSE (IF k \in keep THEN << s[k] >> ELSE << >>) \o Pick(s, keep, k + 1)

\* the subsequences of s of length at most n, in the order of s
SubSeqs(s, n) ==
    { Pick(s, K, 1) : K \in { K \in SUBSET DOMAIN s : Cardinality(K) <= n } }

\* ceil(n / b) for b >= 1
CeilDiv(n, b) == (n + b - 1) \div b

\* ------------------------------------------------------ remote documents
\* A remote document has an id and may lack the name or the display_name
\* attribute; NoAttr stands for the missing attribute.
NoAttr == "<no attribute>"

MkDoc(i, n, d) == [id |-> i, name |-> n, display_name |-> d]

\* getattr(doc, 'name', getattr(doc, 'display_name', f'unknown_{doc.id}'))
doc_name(doc) ==
    IF doc.name # NoAttr THEN doc.name
    ELSE IF doc.display_name # NoAttr THEN doc.display_name
    ELSE "unknown_" \o ToString(doc.id)

\* existing_docs is a dict from name to document; here to the document's id.
EmptyDict == [n \in {} |-> 0]

DictPut(d, k, v) == [n \in (DOMAIN d) \cup {k} |-> IF n = k THEN v ELSE d[n]]

\* for doc in documents: existing_docs[doc_name] = doc
\* Every name of documents ends up bound to the last document carrying it;
\* the other keys of the dict are kept.
DocNames(documents) == [k \in DOMAIN documents |-> doc_name(documents[k])]

\* the position of the last element of names equal to n
LastOf(names, n) ==
    CHOOSE k \in DOMAIN names :
        names[k] = n /\ \A j \in (k + 1) .. Len(names) : names[j] # n

MapDocs_FirstDocOnly(d, documents) ==
    IF documents = << >> THEN d
    ELSE DictPut(d, doc_name(documents[1]), documents[1].id)

MapDocs(d, documents) ==
    LET names == DocNames(documents) IN
    [n \in (DOMAIN d) \cup Range(names) |->
        IF n \in Range(names) THEN documents[LastOf(names, n)].id ELSE d[n]]

\* ------------------------------------------------------------ the remote
\* The remote inventory is the sequence of the dataset's documents, in the
\* order the service lists them.
Filler(k) == MkDoc(k, "filler_" \o ToString(k), NoAttr)

\* n documents: the last is named like the local file docs/a.md, the first
\* like docs/b.txt
BigInventory(n) ==
    [k \in 1..n |-> IF k = n THEN MkDoc(k, "a.md", NoAttr)
                    ELSE IF k = 1 THEN MkDoc(k, "b.txt", NoAttr)
                    ELSE Filler(k)]

SmallInventory ==
    << MkDoc(1, NoAttr, "b.txt"), MkDoc(2, NoAttr, NoAttr),
       MkDoc(3, "R.PDF", "a.md") >>

\* the inventories a whole run starts from: none, a few documents, and
\* one more than a page
RunInventories == { << >>, SmallInventory, BigInventory(page_size + 1) }

\* dataset.list_documents(page=p, page_size=size) of a service that pages
ListPage(docs, p, size) ==
    SubSeq(docs, (p - 1) * size + 1, Min(p * size, Len(docs)))

\* the same call against a service that ignores the page number
ListFirstPage(docs, p, size) == SubSeq(docs, 1, Min(size, Len(docs)))

\* dataset.upload_documents(batch_documents) that returned normally: the
\* service stores one document per entry under its display_name
RECURSIVE Stored(_, _)
Stored(docs, names) ==
    IF names = << >> THEN docs
    ELSE Stored(Append(docs, MkDoc(Len(docs) + 1, NoAttr, Head(names))),
                Tail(names))

\* ---------------------------------------------------------------- state
VARIABLES
    pc,                 \* position of the program
    exit_code,          \* -1 while running, else the process exit code
    run,                \* 1 for the first run of the script, 2 for the second
    \* the environment
    service,            \* "paged" or "repeats": how the listing treats page=
    datasetExists,      \* a dataset of the requested name exists remotely
    remoteDocs,         \* the remote inventory
    dirState,           \* "missing", "file" or "dir"
    dirEntries,         \* the regular files rglob('*') yields, in its order
    \* the arguments
    batch_size, skip_existing, no_parse,
    \* main and get_or_create_dataset
    lookup,             \* outcome of list_datasets: "none" before the call
    created,            \* outcome of create_dataset: "none" before the call
    file_paths,
    \* get_existing_documents
    existing_docs, page, recon,
    \* upload_files
    skipped_files, files_to_upload, i, successful_uploads, failed_uploads,
    summary,            \* the final statistics of upload_files were emitted
    \* what the run did, for the properties
    calls,              \* number of remote calls of each kind in this run
    lastAsked,          \* page number of the last paginated listing call
    namesRead,          \* names of the documents on the pages read so far
    batches,            \* one record per batch processed
    parseLog,           \* one record per call of start_parsing
    interrupted,
    prev                \* how the first run ended, once the second has begun

vars == << pc, exit_code, run, service, datasetExists, remoteDocs, dirState,
           dirEntries, batch_size, skip_existing, no_parse, lookup, created,
           file_paths, existing_docs, page, recon, skipped_files,
           files_to_upload, i, successful_uploads, failed_uploads, summary,
           calls, lastAsked, namesRead, batches, parseLog, interrupted, prev >>

envVars == << service, datasetExists, remoteDocs, dirState, dirEntries >>
argVars == << batch_size, skip_existing, no_parse >>
reconVars == << existing_docs, page, recon, lastAsked, namesRead >>
uploadVars == << skipped_files, files_to_upload, i, successful_uploads,
                 failed_uploads, summary, batches >>

NoCalls ==
    [list_datasets |-> 0, create_dataset |-> 0, list_paged |-> 0,
     list_all |-> 0, upload |-> 0, async_parse |-> 0]

Called(kind) == [calls EXCEPT ![kind] = @ + 1]

BatchSizes == (-1) .. MaxBatchSize

NoPrev == [exit_code |-> -1, recon |-> "none", failed |-> 0, succeeded |-> {}]

\* the locals of a run before it starts
Fresh ==
    /\ exit_code = -1
    /\ lookup = "none"
    /\ created = "none"
    /\ file_paths = << >>
    /\ existing_docs = EmptyDict
    /\ page = 1
    /\ recon = "none"
    /\ skipped_files = << >>
    /\ files_to_upload = << >>
    /\ i = 0
    /\ successful_uploads = 0
    /\ failed_uploads = << >>
    /\ summary = FALSE
    /\ calls = NoCalls
    /\ lastAsked = 0
    /\ namesRead = {}
    /\ batches = << >>
    /\ parseLog = << >>
    /\ interrupted = FALSE

\* ------------------------------------------------------------ main, start
\* A run of the script: main() from its try block on.
Init ==
    /\ pc = "get_or_create_dataset"
    /\ run = 1
    /\ service = "paged"
    /\ datasetExists \in BOOLEAN
    /\ remoteDocs \in RunInventories
    /\ dirState \in { "missing", "file", "dir" }
    /\ dirEntries \in SubSeqs(AllPaths, MaxFiles)
    /\ dirState # "dir" => dirEntries = << >>
    /\ batch_size \in BatchSizes
    /\ skip_existing \in BOOLEAN
    /\ no_parse \in BOOLEAN
    /\ Fresh
    /\ prev = NoPrev

\* raise out of main's try block: except Exception -> sys.exit(1)
Abort_ExitZero ==
    /\ pc' = "done"
    /\ exit_code' = 0

Abort ==
    /\ pc' = "done"
    /\ exit_code' = 1

\* get_or_create_dataset, the lookup: self.rag.list_datasets(name=...)
LookupOutcomes ==
    { "error" } \cup (IF datasetExists THEN { "found" } ELSE { "notfound" })

LookupDataset ==
    /\ pc = "get_or_create_dataset"
    /\ \E r \in LookupOutcomes :
         /\ lookup' = r
         /\ pc' = IF r = "found" THEN "get_files" ELSE "create_dataset"
    /\ calls' = Called("list_datasets")
    /\ UNCHANGED << exit_code, run, envVars, argVars, created, file_paths,
                    reconVars, uploadVars, parseLog, interrupted, prev >>

\* get_or_create_dataset, the creation: self.rag.create_dataset(...)
CreateDataset ==
    /\ pc = "create_dataset"
    /\ calls' = Called("create_dataset")
    /\ \E ok \in BOOLEAN :
         IF ok
         THEN /\ datasetExists' = TRUE
              /\ created' = "ok"
              /\ pc' = "get_files"
              /\ UNCHANGED exit_code
         ELSE /\ created' = "failed"
              /\ Abort
              /\ UNCHANGED datasetExists
    /\ UNCHANGED << run, service, remoteDocs, dirState, dirEntries, argVars,
                    lookup, file_paths, reconVars, uploadVars, parseLog,
                    interrupted, prev >>

\* get_files_from_directory and the "no supported file" return of main
ScannedFiles(entries) == SelectSeq(entries, is_supported_file)

GetFiles ==
    /\ pc = "get_files"
    /\ IF dirState # "dir"
       THEN /\ Abort
            /\ UNCHANGED file_paths
       ELSE /\ file_paths' = ScannedFiles(dirEntries)
            /\ IF file_paths' = << >>
               THEN pc' = "done" /\ exit_code' = 0
               ELSE pc' = "upload_files" /\ UNCHANGED exit_code
    /\ UNCHANGED << run, envVars, argVars, lookup, created, reconVars,
                    uploadVars, calls, parseLog, interrupted, prev >>

\* ------------------------------------------- upload_files, the filtering
\* file_name in existing_docs, under skip_existing
IsSkipped_ByFullPath(skip, existing, p) ==
    skip /\ PathStr(p) \in DOMAIN existing

IsSkipped(skip, existing, p) == skip /\ PathName(p) \in DOMAIN existing

RECURSIVE SkippedOf(_, _, _)
SkippedOf(skip, existing, paths) ==
    IF paths = << >> THEN << >>
    ELSE (IF IsSkipped(skip, existing, Head(paths))
          THEN << PathStr(Head(paths)) >> ELSE << >>)
         \o SkippedOf(skip, existing, Tail(paths))

RECURSIVE ToUploadOf(_, _, _)
ToUploadOf(skip, existing, paths) ==
    IF paths = << >> THEN << >>
    ELSE (IF IsSkipped(skip, existing, Head(paths))
          THEN << >> ELSE << Head(paths) >>)
         \o ToUploadOf(skip, existing, Tail(paths))

\* Lines 283-300 of upload_files once existing_docs is known: the filter,
\* the return when nothing is left, and the entry of the batch loop.
\* range(0, n, 0) raises ValueError; a negative step gives no batch at all,
\* and the statistics follow at once.
FilterFiles(existing) ==
    /\ skipped_files' = SkippedOf(skip_existing, existing, file_paths)
    /\ files_to_upload' = ToUploadOf(skip_existing, existing, file_paths)
    /\ i' = 0
    /\ IF files_to_upload' = << >>
       THEN pc' = "after_upload" /\ UNCHANGED << exit_code, summary >>
       ELSE IF batch_size = 0
       THEN Abort /\ UNCHANGED summary
       ELSE IF batch_size < 0
       THEN pc' = "after_upload" /\ summary' = TRUE /\ UNCHANGED exit_code
       ELSE pc' = "batch" /\ UNCHANGED << exit_code, summary >>
    /\ UNCHANGED << successful_uploads, failed_uploads, batches >>

\* upload_files up to its first remote call
UploadFilesStart ==
    /\ pc = "upload_files"
    /\ IF skip_existing
       THEN /\ pc' = "list_page"
            /\ UNCHANGED << exit_code, uploadVars >>
       ELSE FilterFiles(EmptyDict)
    /\ UNCHANGED << run, envVars, argVars, lookup, created, file_paths,
                    reconVars, calls, parseLog, interrupted, prev >>

\* -------------------------------------------------- get_existing_documents
\* what the listing returns for page p
ServicePage(p) ==
    IF service = "repeats" THEN ListFirstPage(remoteDocs, p, page_size)
    ELSE ListPage(remoteDocs, p, page_size)

\* the value returned when a listing call raised
OnListingError_KeepRead(d) == d

OnListingError(d) == EmptyDict

\* the page is the last one: len(documents) < page_size
IsLastPage_Never(documents) == FALSE

IsLastPage(documents) == Len(documents) < page_size

\* the safety check after page += 1
PastBound_Never(p) == FALSE

PastBound(p) == p > max_pages

\* the value returned when the loop stops at the bound
AtBoundResult_Empty(d) == EmptyDict

AtBoundResult(d) == d

\* one dataset.list_documents(page=page, page_size=page_size) and what the
\* loop body does with its outcome
ListDocumentsPaged ==
    /\ pc = "list_page"
    /\ calls' = Called("list_paged")
    /\ lastAsked' = page
    /\ \E r \in { "ok", "error", "TypeError" } :
         CASE r = "TypeError" ->
                /\ pc' = "list_all"
                /\ recon' = "fallback"
                /\ UNCHANGED << existing_docs, page, namesRead, exit_code,
                                uploadVars >>
           [] r = "error" ->
                /\ existing_docs' = OnListingError(existing_docs)
                /\ recon' = "failed"
                /\ UNCHANGED << page, namesRead >>
                /\ FilterFiles(existing_docs')
           [] r = "ok" ->
                LET documents == ServicePage(page) IN
                /\ namesRead' = namesRead \cup Range(DocNames(documents))
                /\ IF documents = << >>
                   THEN /\ recon' = "ok"
                        /\ UNCHANGED << existing_docs, page >>
                        /\ FilterFiles(existing_docs')
                   ELSE IF IsLastPage(documents)
                   THEN /\ existing_docs' = MapDocs(existing_docs, documents)
                        /\ recon' = "ok"
                        /\ UNCHANGED page
                        /\ FilterFiles(existing_docs')
                   ELSE IF PastBound(page + 1)
                   THEN /\ existing_docs' =
                             AtBoundResult(MapDocs(existing_docs, documents))
                        /\ page' = page + 1
                        /\ recon' = "bound"
                        /\ FilterFiles(existing_docs')
                   ELSE /\ existing_docs' = MapDocs(existing_docs, documents)
                        /\ page' = page + 1
                        /\ pc' = "list_page"
                        /\ UNCHANGED << recon, exit_code, uploadVars >>
    /\ UNCHANGED << run, envVars, argVars, lookup, created, file_paths,
                    parseLog, interrupted, prev >>

\* the break that ends the loop after the fallback call
FallbackEndsLoop_NoBreak == FALSE

FallbackEndsLoop == TRUE

\* the fallback of the except TypeError branch: dataset.list_documents()
ListDocumentsAll ==
    /\ pc = "list_all"
    /\ calls' = Called("list_all")
    /\ \E ok \in BOOLEAN :
         IF ok
         THEN /\ existing_docs' = MapDocs(existing_docs, remoteDocs)
              /\ namesRead' = namesRead \cup Range(DocNames(remoteDocs))
              /\ recon' = "fallback_ok"
         ELSE /\ existing_docs' = OnListingError(existing_docs)
              /\ recon' = "failed"
              /\ UNCHANGED namesRead
    /\ IF FallbackEndsLoop \/ recon' = "failed"
       THEN FilterFiles(existing_docs')
       ELSE pc' = "list_page" /\ UNCHANGED << exit_code, uploadVars >>
    /\ UNCHANGED << run, envVars, argVars, lookup, created, file_paths, page,
                    lastAsked, parseLog, interrupted, prev >>

\* ------------------------------------------- upload_files, the batch loop
RECURSIVE Names(_)
Names(paths) ==
    IF paths = << >> THEN << >>
    ELSE << PathName(Head(paths)) >> \o Names(Tail(paths))

RECURSIVE Strs(_)
Strs(paths) ==
    IF paths = << >> THEN << >>
    ELSE << PathStr(Head(paths)) >> \o Strs(Tail(paths))

\* files_to_upload[i:i + batch_size]
BatchFiles_OffByOne(files, start, size) ==
    SubSeq(files, start + 1, Min(start + size + 1, Len(files)))

BatchFiles(files, start, size) ==
    SubSeq(files, start + 1, Min(start + size, Len(files)))

\* successful_uploads += len(batch_documents)
CountSuccess_WholeBatch(count, batch_files, batch_documents) ==
    count + Len(batch_files)

CountSuccess(count, batch_files, batch_documents) ==
    count + Len(batch_documents)

\* the except branch of the upload call: every prepared document is failed
FailBatch_None(failed, batch_documents) == failed

FailBatch(failed, batch_documents) == failed \o Names(batch_documents)

\* the except branch of the file read: failed_uploads.append(str(file_path))
FailReads_None(failed, unread) == failed

FailReads(failed, unread) == failed \o Strs(unread)

\* the for loop goes on while the next start is below len(files_to_upload)
MoreBatches_StopOnFailure(next, n, ok) == ok /\ next < n

MoreBatches(next, n, ok) == next < n

\* the call is made only for a non-empty batch_documents
CallsUpload_Always(batch_documents) == TRUE

CallsUpload(batch_documents) == batch_documents # << >>

\* One iteration of the batch loop: the reads of the batch's files, the one
\* upload call, the bookkeeping; after the last batch the statistics of
\* lines 357-393 are emitted and upload_files returns.
ProcessBatch ==
    /\ pc = "batch"
    /\ LET batch_files == BatchFiles(files_to_upload, i, batch_size)
           positions == 1 .. Len(batch_files)
       IN
       \E unreadable \in SUBSET positions :
       \E ok \in BOOLEAN :
         LET batch_documents == Pick(batch_files, positions \ unreadable, 1)
             unread == Pick(batch_files, unreadable, 1)
             called == CallsUpload(batch_documents)
             failed1 == FailReads(failed_uploads, unread)
         IN
         /\ (~called => ok)
         /\ batches' = Append(batches,
                [files |-> batch_files, docs |-> batch_documents,
                 unread |-> unread, called |-> called,
                 ok |-> called /\ ok])
         /\ IF called
            THEN /\ calls' = Called("upload")
                 /\ IF ok
                    THEN /\ successful_uploads' =
                              CountSuccess(successful_uploads, batch_files,
                                           batch_documents)
                         /\ failed_uploads' = failed1
                         /\ remoteDocs' =
                              Stored(remoteDocs, Names(batch_documents))
                    ELSE /\ failed_uploads' =
                              FailBatch(failed1, batch_documents)
                         /\ UNCHANGED << successful_uploads, remoteDocs >>
            ELSE /\ failed_uploads' = failed1
                 /\ UNCHANGED << calls, successful_uploads, remoteDocs >>
         /\ i' = i + batch_size
         /\ IF MoreBatches(i', Len(files_to_upload), ok)
            THEN pc' = "batch" /\ UNCHANGED summary
            ELSE pc' = "after_upload" /\ summary' = TRUE
    /\ UNCHANGED << exit_code, run, service, datasetExists, dirState,
                    dirEntries, argVars, lookup, created, file_paths,
                    reconVars, skipped_files, files_to_upload, parseLog,
                    interrupted, prev >>

\* ------------------------------------------------- start_parsing and the end
RECURSIVE Ids(_)
Ids(docs) ==
    IF docs = << >> THEN << >> ELSE << Head(docs).id >> \o Ids(Tail(docs))

\* if not args.no_parse: uploader.start_parsing(dataset)
WantsParsing_Never(flag) == FALSE

WantsParsing(flag) == ~flag

\* the async_parse_documents requests of one start_parsing: none when the
\* listing raised or returned no document, else one with every listed id
ParseRequests_EvenWhenEmpty(listed, documents) ==
    IF listed THEN << Ids(documents) >> ELSE << >>

ParseRequests(listed, documents) ==
    IF listed /\ documents # << >> THEN << Ids(documents) >> ELSE << >>

\* start_parsing catches whatever its calls raise, and main runs to its
\* end: the process exits with 0
ExitAfterParsing_FailOnError(submitted) == IF submitted THEN 0 ELSE 1

ExitAfterParsing(submitted) == 0

\* main after upload_files with parsing enabled: start_parsing lists the
\* documents and submits their ids in one request; whatever the calls raise
\* is caught, and main ends normally.
StartParsing ==
    /\ pc = "after_upload"
    /\ WantsParsing(no_parse)
    /\ \E listed \in BOOLEAN :
       \E parsed \in BOOLEAN :
         LET documents == IF listed THEN remoteDocs ELSE << >>
             requests == ParseRequests(listed, documents)
         IN
         /\ requests = << >> => parsed
         /\ calls' = [calls EXCEPT !.list_all = @ + 1,
                                    !.async_parse = @ + Len(requests)]
         /\ parseLog' = Append(parseLog,
                [listed |-> listed, documents |-> Ids(documents),
                 requests |-> requests, ok |-> listed /\ parsed])
         /\ exit_code' = ExitAfterParsing(listed /\ parsed)
    /\ pc' = "done"
    /\ UNCHANGED << run, envVars, argVars, lookup, created, file_paths,
                    reconVars, uploadVars, interrupted, prev >>

\* main after upload_files under --no_parse
SkipParsing ==
    /\ pc = "after_upload"
    /\ ~WantsParsing(no_parse)
    /\ pc' = "done"
    /\ exit_code' = 0
    /\ UNCHANGED << run, envVars, argVars, lookup, created, file_paths,
                    reconVars, uploadVars, calls, parseLog, interrupted,
                    prev >>

\* KeyboardInterrupt anywhere in main's try block: sys.exit(1)
Interrupt ==
    /\ pc # "done"
    /\ interrupted' = TRUE
    /\ Abort
    /\ UNCHANGED << run, envVars, argVars, lookup, created, file_paths,
                    reconVars, uploadVars, calls, parseLog, prev >>

\* ------------------------------------------------------- the whole run
Next ==
    \/ LookupDataset
    \/ CreateDataset
    \/ GetFiles
    \/ UploadFilesStart
    \/ ListDocumentsPaged
    \/ ListDocumentsAll
    \/ ProcessBatch
    \/ StartParsing
    \/ SkipParsing
    \/ Interrupt

Spec == Init /\ [][Next]_vars

\* ------------------------------------------------- upload_files on its own
\* upload_files called with a resolved dataset, any list of distinct paths,
\* a positive batch size and either value of skip_existing.
UploadPaths == Range(SubSeq(AllPaths, 1, Min(NumUploadPaths, Len(AllPaths))))

UploadInventories ==
    { << MkDoc(1, "a.md", NoAttr) >>, << MkDoc(1, NoAttr, "b.txt") >> }

\* the state in which upload_files is entered
AtUploadFiles ==
    /\ pc = "upload_files"
    /\ run = 1
    /\ datasetExists = TRUE
    /\ dirState = "dir"
    /\ dirEntries = << >>
    /\ no_parse = TRUE
    /\ exit_code = -1
    /\ lookup = "found"
    /\ created = "none"
    /\ existing_docs = EmptyDict
    /\ page = 1
    /\ recon = "none"
    /\ skipped_files = << >>
    /\ files_to_upload = << >>
    /\ i = 0
    /\ successful_uploads = 0
    /\ failed_uploads = << >>
    /\ summary = FALSE
    /\ calls = NoCalls
    /\ lastAsked = 0
    /\ namesRead = {}
    /\ batches = << >>
    /\ parseLog = << >>
    /\ interrupted = FALSE
    /\ prev = NoPrev

InitUpload ==
    /\ service = "paged"
    /\ remoteDocs \in UploadInventories
    /\ batch_size \in 1 .. MaxUploadBatch
    /\ skip_existing \in BOOLEAN
    /\ file_paths \in SeqsNoDup(UploadPaths, MaxUploadFiles)
    /\ AtUploadFiles

NextUpload ==
    \/ UploadFilesStart
    \/ ListDocumentsPaged
    \/ ListDocumentsAll
    \/ ProcessBatch

SpecUpload == InitUpload /\ [][NextUpload]_vars

\* ------------------------------- get_existing_documents and any service
\* upload_files under skip_existing against a remote of up to MaxFullPages
\* full pages, listed by a service that pages or by one that answers every
\* page number with the first page.
ReconInventories ==
    { << >>, SmallInventory }
    \cup { BigInventory(p * page_size + e) :
             p \in 1 .. MaxFullPages, e \in 0 .. MaxExtraDocs }

InitReconcile ==
    /\ service \in { "paged", "repeats" }
    /\ remoteDocs \in ReconInventories
    /\ batch_size = default_batch_size
    /\ skip_existing = TRUE
    /\ file_paths = << AllPaths[2], AllPaths[1] >>
    /\ AtUploadFiles

SpecReconcile == InitReconcile /\ [][NextUpload]_vars

\* ----------------------------------------------------- the script run twice
\* the paths carried by the upload calls that returned normally
RECURSIVE StoredPaths(_)
StoredPaths(bs) ==
    IF bs = << >> THEN {}
    ELSE (IF Head(bs).ok THEN Range(Head(bs).docs) ELSE {})
         \cup StoredPaths(Tail(bs))

\* the paths carried by any upload call
RECURSIVE SentPaths(_)
SentPaths(bs) ==
    IF bs = << >> THEN {}
    ELSE (IF Head(bs).called THEN Range(Head(bs).docs) ELSE {})
         \cup SentPaths(Tail(bs))

\* The same command line is run again once the first process has exited:
\* the remote and the directory are as the first run left them.
SecondRun ==
    /\ pc = "done"
    /\ run = 1
    /\ run' = 2
    /\ prev' = [exit_code |-> exit_code, recon |-> recon,
                failed |-> Len(failed_uploads),
                succeeded |-> StoredPaths(batches)]
    /\ pc' = "get_or_create_dataset"
    /\ exit_code' = -1
    /\ lookup' = "none"
    /\ created' = "none"
    /\ file_paths' = << >>
    /\ existing_docs' = EmptyDict
    /\ page' = 1
    /\ recon' = "none"
    /\ skipped_files' = << >>
    /\ files_to_upload' = << >>
    /\ i' = 0
    /\ successful_uploads' = 0
    /\ failed_uploads' = << >>
    /\ summary' = FALSE
    /\ calls' = NoCalls
    /\ lastAsked' = 0
    /\ namesRead' = {}
    /\ batches' = << >>
    /\ parseLog' = << >>
    /\ interrupted' = FALSE
    /\ UNCHANGED << envVars, argVars >>

InitTwice ==
    /\ Init
    /\ skip_existing
    /\ no_parse
    /\ batch_size >= 1
    /\ dirState = "dir"

NextTwice ==
    \/ LookupDataset
    \/ CreateDataset
    \/ GetFiles
    \/ UploadFilesStart
    \/ ListDocumentsPaged
    \/ ListDocumentsAll
    \/ ProcessBatch
    \/ SkipParsing
    \/ SecondRun

SpecTwice == InitTwice /\ [][NextTwice]_vars

\* =================================================================
\* The properties
\* =================================================================
\* upload_files has returned normally
Returned == pc = "after_upload"

\* the batches whose upload call returned normally / raised
OkBatches == SelectSeq(batches, LAMBDA b : b.called /\ b.ok)
FailedBatches == SelectSeq(batches, LAMBDA b : b.called /\ ~b.ok)

RECURSIVE FilesOf(_)
FilesOf(bs) == IF bs = << >> THEN << >> ELSE Head(bs).files \o FilesOf(Tail(bs))

RECURSIVE DocsOf(_)
DocsOf(bs) == IF bs = << >> THEN << >> ELSE Head(bs).docs \o DocsOf(Tail(bs))

\* what the batches processed so far must have appended to failed_uploads
RECURSIVE FailedOf(_)
FailedOf(bs) ==
    IF bs = << >> THEN << >>
    ELSE Strs(Head(bs).unread)
         \o (IF Head(bs).called /\ ~Head(bs).ok
             THEN Names(Head(bs).docs) ELSE << >>)
         \o FailedOf(Tail(bs))

\* n mod b, or b when b divides n
LastBatchSize(n, b) == IF n % b = 0 THEN b ELSE n % b

\* C1: once upload_files has returned (batch_size >= 1), the files counted
\* successful plus the entries of the failed list are the files attempted,
\* and attempted plus skipped are the files passed in.
C1_CountsAddUp ==
    (Returned /\ batch_size >= 1) =>
        /\ successful_uploads + Len(failed_uploads) = Len(files_to_upload)
        /\ Len(files_to_upload) + Len(skipped_files) = Len(file_paths)

C1_Witness ==
    /\ Returned
    /\ summary
    /\ successful_uploads > 0
    /\ Len(skipped_files) > 0
    /\ \E k \in DOMAIN batches : batches[k].unread # << >> /\ batches[k].ok
    /\ \E k \in DOMAIN batches : batches[k].called /\ ~batches[k].ok

\* C3 as stated: every file of every batch whose upload call returned
\* normally is counted as succeeded, and only the files of the failing
\* batches are recorded as failed.
C3_Original ==
    (Returned /\ batch_size >= 1) =>
        /\ successful_uploads = Len(FilesOf(OkBatches))
        /\ failed_uploads = Names(FilesOf(FailedBatches))

\* C3, amended: whatever upload calls failed, every batch is processed;
\* the files counted as succeeded are the successfully read files of the
\* batches whose upload call returned normally, and the failed list holds,
\* batch by batch, the files whose read failed and the read files of the
\* batches whose upload call failed.
C3_BatchesIndependent ==
    /\ pc \in { "batch", "after_upload" } =>
          /\ successful_uploads = Len(DocsOf(OkBatches))
          /\ failed_uploads = FailedOf(batches)
          /\ FilesOf(batches) =
                SubSeq(files_to_upload, 1, Len(FilesOf(batches)))
    /\ (Returned /\ batch_size >= 1) => FilesOf(batches) = files_to_upload

C3_Witness ==
    /\ Returned
    /\ Len(batches) = 2
    /\ batches[1].called /\ ~batches[1].ok
    /\ batches[2].ok /\ batches[2].unread # << >>
    /\ successful_uploads = 1
    /\ Len(failed_uploads) = 3

\* C4 as stated: for n >= 1 files to upload and b >= 1, whatever the reads
\* and the calls do, exactly ceil(n/b) upload calls are issued and the last
\* batch has n mod b (or b) documents.
C4_Original ==
    (Returned /\ batch_size >= 1 /\ files_to_upload # << >>) =>
        /\ calls.upload = CeilDiv(Len(files_to_upload), batch_size)
        /\ Len(batches[Len(batches)].docs) =
              LastBatchSize(Len(files_to_upload), batch_size)

\* C4, amended: ceil(n/b) batches are processed, the last of n mod b (or b)
\* files; one upload call is issued for each batch with at least one file
\* read, and none for a batch whose files all failed to read; so ceil(n/b)
\* calls are issued when every batch has a readable file, the last of them
\* carrying n mod b (or b) documents when all its files were read.
C4_BatchPartition ==
    (Returned /\ batch_size >= 1 /\ files_to_upload # << >>) =>
        LET n == Len(files_to_upload)
            last == batches[Len(batches)]
        IN
        /\ Len(batches) = CeilDiv(n, batch_size)
        /\ Len(last.files) = LastBatchSize(n, batch_size)
        /\ \A k \in DOMAIN batches :
              /\ batches[k].called <=> batches[k].docs # << >>
              /\ k < Len(batches) => Len(batches[k].files) = batch_size
        /\ calls.upload =
              Cardinality({ k \in DOMAIN batches : batches[k].docs # << >> })
        /\ calls.upload <= CeilDiv(n, batch_size)
        /\ (\A k \in DOMAIN batches : batches[k].docs # << >>) =>
              calls.upload = CeilDiv(n, batch_size)
        /\ last.unread = << >> =>
              Len(last.docs) = LastBatchSize(n, batch_size)

C4_Witness ==
    /\ Returned
    /\ batch_size = 2
    /\ Len(files_to_upload) = 3
    /\ Len(batches) = 2
    /\ batches[1].docs = << >>
    /\ ~batches[1].called
    /\ calls.upload = 1
    /\ Len(batches[2].docs) = 1

\* C5: with skip_existing a file is skipped, and carried by no upload call,
\* exactly when its base name is a key of the mapping returned by
\* get_existing_documents; without skip_existing no file is skipped.
C5_SkipIffNameListed ==
    pc \in { "batch", "after_upload" } =>
        /\ \A k \in DOMAIN file_paths :
              LET f == file_paths[k] IN
              /\ (\E j \in DOMAIN skipped_files : skipped_files[j] = PathStr(f))
                    <=> (skip_existing /\ PathName(f) \in DOMAIN existing_docs)
              /\ (\E j \in DOMAIN files_to_upload : files_to_upload[j] = f)
                    <=> ~(skip_existing /\ PathName(f) \in DOMAIN existing_docs)
        /\ \A f \in SentPaths(batches) :
              ~(skip_existing /\ PathName(f) \in DOMAIN existing_docs)
        /\ ~skip_existing => skipped_files = << >>

C5_Witness ==
    /\ Returned
    /\ skip_existing
    /\ recon = "ok"
    /\ Len(skipped_files) = 1
    /\ Len(files_to_upload) = 2
    /\ \E f \in SentPaths(batches) : PathName(f) = "a.md"
    /\ skipped_files = << "docs/b.txt" >>

\* C2 as stated: when the source directory is missing or is no directory,
\* the run ends with a non-zero exit code and no remote call of any kind is
\* issued at any point of the run.
C2_NoRemoteCallWhenDirMissing ==
    dirState # "dir" =>
        /\ calls = NoCalls
        /\ pc = "done" => exit_code = 1

\* the listing answered without raising, in either call shape
Queryable == { "ok", "fallback_ok" }

C7_Safe ==
    /\ calls.list_paged <= max_pages
    /\ pc = "list_page" => page = calls.list_paged + 1 /\ page <= max_pages
    /\ recon = "bound" =>
          /\ calls.list_paged = max_pages
          /\ pc \in { "batch", "after_upload" }
          /\ namesRead # {}
          /\ DOMAIN existing_docs = namesRead
          /\ \A k \in DOMAIN file_paths :
                PathName(file_paths[k]) \in namesRead =>
                    \E j \in DOMAIN skipped_files :
                        skipped_files[j] = PathStr(file_paths[k])

\* Every step of get_existing_documents is one more listing call, and the
\* listing calls are bounded: the loop cannot go on for ever.
C7_Step ==
    pc \in { "list_page", "list_all" } =>
        /\ calls'.list_paged + calls'.list_all =
              calls.list_paged + calls.list_all + 1
        /\ calls'.list_paged <= max_pages
        /\ calls'.list_all <= 1
        /\ pc' = "list_page" => page' = page + 1

\* C7: get_existing_documents terminates whatever the listing returns; it
\* issues at most 1000 paginated calls, and when it stops at that bound it
\* returns the mapping accumulated from the pages read.
C7_TerminatesWithinBound == []C7_Safe /\ [][C7_Step]_vars

C7_Witness ==
    /\ recon = "bound"
    /\ service = "repeats"
    /\ calls.list_paged = max_pages
    /\ Cardinality(DOMAIN existing_docs) = page_size
    /\ skipped_files = << "docs/b.txt" >>
    /\ files_to_upload = << AllPaths[1] >>

\* C8: when a listing call of get_existing_documents fails with an error
\* other than the capability mismatch (first page, later page or fallback
\* call), an empty mapping is returned, nothing is raised, no file is
\* skipped and every local file is attempted.
C8_ListingFailureSkipsNothing ==
    recon = "failed" =>
        /\ existing_docs = EmptyDict
        /\ skipped_files = << >>
        /\ files_to_upload = file_paths
        /\ (exit_code = 1 /\ ~interrupted) => batch_size = 0
        /\ (pc = "done" /\ exit_code = 0 /\ batch_size >= 1) =>
              FilesOf(batches) = file_paths

C8_Witness ==
    /\ recon = "failed"
    /\ calls.list_paged = 2
    /\ calls.list_all = 0
    /\ pc = "after_upload"
    /\ summary
    /\ AllPaths[2] \in SentPaths(batches)

\* After the capability mismatch: one unpaginated call, whose documents are
\* all mapped, each name to the last document carrying it.
C9_State ==
    /\ calls.list_all <= 1
    /\ recon = "fallback" => pc = "list_all" /\ calls.list_all = 0
    /\ pc = "list_all" => recon = "fallback"
    /\ recon = "fallback_ok" => calls.list_all = 1
    /\ (recon = "fallback_ok" /\ batches = << >>) =>
          /\ namesRead \subseteq DOMAIN existing_docs
          /\ \A k \in DOMAIN remoteDocs :
                /\ doc_name(remoteDocs[k]) \in DOMAIN existing_docs
                /\ \E j \in k .. Len(remoteDocs) :
                      /\ doc_name(remoteDocs[j]) = doc_name(remoteDocs[k])
                      /\ existing_docs[doc_name(remoteDocs[k])] =
                            remoteDocs[j].id
    /\ calls.list_all = 1 => pc \notin { "list_page", "list_all" }

\* Once the mismatch was signalled the next call is the unpaginated one, and
\* no paginated call follows.
C9_Step ==
    (recon = "fallback" \/ calls.list_all >= 1) =>
        /\ calls'.list_paged = calls.list_paged
        /\ calls'.list_all <= 1
        /\ recon = "fallback" => calls'.list_all = 1

\* C9: after a paginated listing call signalled the capability mismatch,
\* exactly one unpaginated listing call is made, every document of its
\* result is mapped, and no paginated call is issued afterwards.
C9_FallbackOnce == []C9_State /\ [][C9_Step]_vars

C9_Witness ==
    /\ recon = "fallback_ok"
    /\ calls.list_paged = 2
    /\ calls.list_all = 1
    /\ batches = << >>
    /\ Len(remoteDocs) > page_size
    /\ Cardinality(DOMAIN existing_docs) = Len(remoteDocs)
    /\ Len(skipped_files) = 2

\* C10 as stated: a dataset is created at most once and only when it is
\* absent (a creation call is about to be issued only while no dataset of
\* that name exists); a dataset that exists is reused without a creation
\* call; a resolution that raises (a failed creation) ends the
\* run with a non-zero exit code.
C10_CreateOnlyWhenAbsent ==
    /\ calls.create_dataset <= 1
    /\ pc = "create_dataset" => ~datasetExists
    /\ lookup = "found" => calls.create_dataset = 0 /\ created = "none"
    /\ created = "failed" => pc = "done" /\ exit_code = 1

\* the dataset was resolved: found by the lookup, or created
Resolved == lookup = "found" \/ created = "ok"

\* a run that nobody interrupted, past resolution and scan, with a file to
\* upload and a positive batch size
UploadingRun ==
    /\ ~interrupted
    /\ Resolved
    /\ dirState = "dir"
    /\ file_paths # << >>
    /\ batch_size >= 1

\* such a run ends with start_parsing called once, after every batch, and
\* with exit code 0 whatever start_parsing met
C11_State ==
    /\ (pc = "done" /\ UploadingRun /\ ~no_parse) =>
          /\ Len(parseLog) = 1
          /\ FilesOf(batches) = files_to_upload
          /\ exit_code = 0
    /\ parseLog # << >> => pc = "done" /\ exit_code = 0

\* no failure inside the batch loop leaves the loop other than forwards, and
\* start_parsing is the step that follows the last batch
C11_Step ==
    /\ Len(parseLog') > Len(parseLog) =>
          /\ pc = "after_upload"
          /\ batches' = batches
          /\ batch_size >= 1 => FilesOf(batches) = files_to_upload
    /\ (pc = "batch" /\ ~interrupted') =>
          /\ pc' \in { "batch", "after_upload" }
          /\ exit_code' = -1
    /\ (pc = "after_upload" /\ ~no_parse /\ ~interrupted') =>
          Len(parseLog') = Len(parseLog) + 1

\* C11: in every uninterrupted run that resolved the dataset, scanned the
\* directory, found a supported file, has a positive batch size and has
\* parsing enabled, start_parsing is called after the last batch whatever
\* reads, upload calls or listing calls failed, and a failure inside
\* start_parsing is not propagated.
C11_ParseFollowsUpload == []C11_State /\ [][C11_Step]_vars

C11_Witness ==
    /\ pc = "done"
    /\ exit_code = 0
    /\ recon = "failed"
    /\ Len(batches) = 2
    /\ batches[1].unread # << >>
    /\ batches[2].called /\ ~batches[2].ok
    /\ Len(parseLog) = 1
    /\ parseLog[1].requests # << >>
    /\ ~parseLog[1].ok

\* C12 as stated: every run (of a positive batch size) in which
\* upload_files returned has emitted the summary of totals, skipped,
\* succeeded, failed and elapsed time, the runs in which every file was
\* skipped as already existing included.
C12_SummaryAlways ==
    batch_size >= 1 =>
        /\ Returned => summary
        /\ (pc = "done" /\ exit_code = 0 /\ file_paths # << >>) => summary

\* every step of the run succeeded: lookup or creation, scan, listing,
\* every read, every upload call and the parse trigger
FullSuccess ==
    /\ UploadingRun
    /\ lookup # "error"
    /\ recon # "failed"
    /\ failed_uploads = << >>
    /\ \A k \in DOMAIN parseLog : parseLog[k].ok

\* C13: a finished run has exit code 0 when every step succeeded or when
\* the scan found no supported file, and exit code 1 when the user
\* interrupted it, when the source directory is missing or is not a
\* directory, or when the dataset could not be resolved.
C13_ExitCodes ==
    /\ pc # "done" => exit_code = -1
    /\ pc = "done" =>
          /\ exit_code \in { 0, 1 }
          /\ interrupted => exit_code = 1
          /\ dirState # "dir" => exit_code = 1
          /\ created = "failed" => exit_code = 1
          /\ (~interrupted /\ Resolved /\ dirState = "dir"
                /\ ScannedFiles(dirEntries) = << >>) => exit_code = 0
          /\ FullSuccess => exit_code = 0

C13_Witness ==
    /\ pc = "done"
    /\ exit_code = 0
    /\ FullSuccess
    /\ created = "ok"
    /\ successful_uploads = 2
    /\ summary
    /\ Len(parseLog) = 1
    /\ parseLog[1].requests # << >>

\* the batches for which upload_documents was called, in call order
CalledBatches == SelectSeq(batches, LAMBDA b : b.called)

\* the files of all batches whose read failed
RECURSIVE UnreadOf(_)
UnreadOf(bs) ==
    IF bs = << >> THEN {} ELSE Range(Head(bs).unread) \cup UnreadOf(Tail(bs))

\* C14: within one call of upload_files over distinct paths, no file is
\* carried by two upload calls, no batch is processed twice, every upload
\* call carries between 1 and batch_size documents, and once upload_files
\* has returned the documents of all upload calls, in call order, are the
\* non-skipped files whose read succeeded, in their original order.
C14_EachFileSentOnce ==
    pc \in { "batch", "after_upload" } =>
        LET sent == DocsOf(CalledBatches) IN
        /\ NoDup(sent)
        /\ NoDup(FilesOf(batches))
        /\ calls.upload = Len(CalledBatches)
        /\ Len(batches) <= CeilDiv(Len(files_to_upload), batch_size)
        /\ \A k \in DOMAIN CalledBatches :
              /\ Len(CalledBatches[k].docs) >= 1
              /\ Len(CalledBatches[k].docs) <= batch_size
        /\ \A k \in DOMAIN sent :
              \A j \in DOMAIN skipped_files :
                  skipped_files[j] # PathStr(sent[k])
        /\ Returned =>
              sent = Pick(files_to_upload,
                          { k \in DOMAIN files_to_upload :
                              files_to_upload[k] \notin UnreadOf(batches) }, 1)

C14_Witness ==
    /\ Returned
    /\ batch_size = 2
    /\ Len(file_paths) = 4
    /\ Len(skipped_files) = 1
    /\ calls.upload = 2
    /\ Len(batches[1].docs) = 1
    /\ batches[1].unread # << >>
    /\ Len(batches[2].docs) = 1

\* how many entries of the sequence s equal x
Count(x, s) == Cardinality({ k \in DOMAIN s : s[k] = x })

\* the three outcomes of a file passed to upload_files
WasSkipped(f) == Count(PathStr(f), skipped_files) >= 1
WasStored(f) == f \in StoredPaths(batches)
WasFailed(f) ==
    f \in UnreadOf(batches) \cup Range(DocsOf(FailedBatches))

Outcomes(f) ==
    (IF WasSkipped(f) THEN 1 ELSE 0) + (IF WasStored(f) THEN 1 ELSE 0)
        + (IF WasFailed(f) THEN 1 ELSE 0)

\* C15: a file whose read fails is appended to failed_uploads exactly once
\* and is not among the documents of its batch's upload call, which still
\* carries the other files of the batch in one request; once upload_files
\* has returned with a positive batch size, every file passed in has
\* exactly one of the outcomes skipped, succeeded or failed, and the three
\* counts are those of the files of each outcome.
C15_ReadFailureIsolated ==
    pc \in { "batch", "after_upload" } =>
        /\ \A k \in DOMAIN batches :
              LET b == batches[k] IN
              /\ \A f \in Range(b.unread) :
                    /\ f \notin Range(b.docs)
                    /\ Count(PathStr(f), failed_uploads) = 1
              /\ b.docs = SelectSeq(b.files,
                                    LAMBDA f : f \notin Range(b.unread))
              /\ b.docs # << >> => b.called
        /\ calls.upload = Len(CalledBatches)
        /\ Returned =>
              /\ \A k \in DOMAIN file_paths : Outcomes(file_paths[k]) = 1
              /\ Len(skipped_files) =
                    Cardinality({ f \in Range(file_paths) : WasSkipped(f) })
              /\ successful_uploads =
                    Cardinality({ f \in Range(file_paths) : WasStored(f) })
              /\ Len(failed_uploads) =
                    Cardinality({ f \in Range(file_paths) : WasFailed(f) })

C15_Witness ==
    /\ Returned
    /\ Len(file_paths) = 4
    /\ Len(skipped_files) = 1
    /\ Len(batches) = 2
    /\ batches[1].unread # << >>
    /\ batches[1].called /\ ~batches[1].ok
    /\ batches[2].ok
    /\ successful_uploads = 1
    /\ Len(failed_uploads) = 2

\* every listing call so far was a paginated one that returned normally
PagingUndisturbed ==
    /\ calls.list_all = 0
    /\ recon \in { "none", "ok", "bound" }

\* the names of the documents on pages 1 .. n of the service
NamesOnPages(n) == UNION { Range(DocNames(ServicePage(p))) : p \in 1 .. n }

\* The pages asked so far are 1 .. lastAsked; another page is asked only
\* after a full page, and the loop has ended with the first page that is
\* empty or short, the mapping holding the names of the pages read.
C16_State ==
    PagingUndisturbed =>
        /\ lastAsked = calls.list_paged
        /\ pc = "list_page" =>
              /\ recon = "none"
              /\ page = lastAsked + 1
              /\ lastAsked >= 1 => Len(ServicePage(lastAsked)) = page_size
        /\ (recon = "ok" /\ batches = << >>) =>
              /\ pc \in { "batch", "after_upload" }
              /\ Len(ServicePage(lastAsked)) < page_size
              /\ DOMAIN existing_docs = NamesOnPages(lastAsked)
              /\ namesRead = NamesOnPages(lastAsked)

\* each paginated call asks for the page after the last one asked, and is
\* made only while the loop has not ended
C16_Step ==
    calls'.list_paged # calls.list_paged =>
        /\ pc = "list_page"
        /\ recon = "none"
        /\ calls'.list_paged = calls.list_paged + 1
        /\ lastAsked' = lastAsked + 1
        /\ lastAsked' = page

\* C16: against a service that accepts the paging parameters and does not
\* fail, get_existing_documents asks for pages 1, 2, 3, ... of 50 documents
\* in this order, asks for no page after the first that is empty or shorter
\* than 50, and below the 1000-page bound returns a mapping whose keys are
\* exactly the names of the documents on the pages it read.
C16_PagesInOrder == []C16_State /\ [][C16_Step]_vars

C16_Witness ==
    /\ PagingUndisturbed
    /\ recon = "ok"
    /\ service = "paged"
    /\ calls.list_paged = 2
    /\ batches = << >>
    /\ Len(remoteDocs) = page_size + 1
    /\ Cardinality(DOMAIN existing_docs) = page_size + 1
    /\ Len(skipped_files) = 2

\* C17: a call of start_parsing issues at most one async_parse_documents
\* request: none when the listing raised or returned no document,
\* otherwise exactly one, carrying the id of every listed document in the
\* order listed; it raises nothing, so main ends with exit code 0.
C17_State ==
    /\ Len(parseLog) <= 1
    /\ calls.async_parse <= 1
    /\ \A k \in DOMAIN parseLog :
          LET r == parseLog[k] IN
          /\ Len(r.requests) <= 1
          /\ Len(r.requests) = calls.async_parse
          /\ (~r.listed \/ r.documents = << >>) => r.requests = << >>
          /\ (r.listed /\ r.documents # << >>) =>
                /\ r.requests = << r.documents >>
                /\ r.documents = [j \in DOMAIN remoteDocs |-> remoteDocs[j].id]
          /\ pc = "done"
          /\ exit_code = 0
          /\ ~interrupted

\* the request is issued by start_parsing only, once upload_files is over
C17_Step ==
    calls'.async_parse # calls.async_parse =>
        /\ pc = "after_upload"
        /\ calls'.async_parse = calls.async_parse + 1
        /\ Len(parseLog') = Len(parseLog) + 1

C17_AtMostOneParseRequest == []C17_State /\ [][C17_Step]_vars

C17_Witness ==
    /\ pc = "done"
    /\ exit_code = 0
    /\ Len(parseLog) = 1
    /\ parseLog[1].listed
    /\ ~parseLog[1].ok
    /\ calls.async_parse = 1
    /\ Len(parseLog[1].requests[1]) = page_size + 3
    /\ calls.upload = 2

\* C18: an uninterrupted run that resolved the dataset and scanned the
\* directory, with a positive batch size, finishes with exit code 0
\* whatever listing calls, reads, upload calls or the parse trigger failed,
\* the run in which every batch fails included.
C18_ExitCodeIgnoresOutcomes ==
    (pc = "done" /\ ~interrupted /\ Resolved /\ dirState = "dir"
        /\ batch_size >= 1) => exit_code = 0

C18_Witness ==
    /\ pc = "done"
    /\ exit_code = 0
    /\ recon = "failed"
    /\ Len(batches) = 2
    /\ \A k \in DOMAIN batches : batches[k].called /\ ~batches[k].ok
    /\ successful_uploads = 0
    /\ Len(failed_uploads) = 2
    /\ Len(parseLog) = 1
    /\ ~parseLog[1].listed

====
